---- MODULE Spec2Model ----
(***************************************************************************)
(* Model of homework_bot (src/homework.py, src/exceptions.py): the         *)
(* startup gate, the poll loop of main() and the functions it drives       *)
(* (get_api_answer, check_response, parse_status, send_message).           *)
(*                                                                         *)
(* The Russian string literals of the source are written transliterated    *)
(* to ASCII; each keeps its punctuation and its place in the source.       *)
(***************************************************************************)
EXTENDS Integers, Sequences, FiniteSets, TLC

(***************************************************************************)
(* Bounds of the model                                                     *)
(***************************************************************************)
\* longest "homeworks" list a response carries
MaxHomeworks == 2

(***************************************************************************)
(* Program constants                                                       *)
(***************************************************************************)
RETRY_PERIOD == 600
\* HTTPStatus.OK
HTTP_OK == 200

\* "Работ на проверке нет."
NO_WORK_MESSAGE == "Rabot na proverke net."

HOMEWORK_VERDICTS ==
    [s \in {"approved", "reviewing", "rejected"} |->
        CASE s = "approved"  -> "Rabota proverena: revyueru vsyo ponravilos. Ura!"
          [] s = "reviewing" -> "Rabota vzyata na proverku revyuerom."
          [] s = "rejected"  -> "Rabota proverena: u revyuera est zamechaniya."]

TokenNames == {"PRACTICUM_TOKEN", "TELEGRAM_TOKEN", "TELEGRAM_CHAT_ID"}

(***************************************************************************)
(* Exceptions: a class name and the message it carries.                    *)
(***************************************************************************)
NoException == [cls |-> "None", msg |-> ""]

Exc(c, m) == [cls |-> c, msg |-> m]

\* The classes of exceptions.py derive from Exception, like the built-in
\* TypeError, KeyError, ValueError and ConnectionError.
CustomErrors == {"SendMessageError", "EndpointStatusError", "EndPointError"}

BuiltinErrors == {"TypeError", "KeyError", "ValueError", "ConnectionError"}

\* `except Exception` of main catches e
IsCustomError(e) == e.cls \in CustomErrors

IsException(e) == e.cls \in CustomErrors \cup BuiltinErrors

\* results of a call: the exception it raised, or the value it returned
Raise(e) == [raised |-> e, value |-> "None"]

(***************************************************************************)
(* Inputs: the environment, the clock, the API's answers.                  *)
(***************************************************************************)
\* os.getenv gives None for a variable that is not set
EnvValues == {"None", "token"}

\* int(time.time()) at startup: one instant, earlier than every
\* "current_date" of Dates
StartTimes == {1000}

Statuses == {"approved", "reviewing", "rejected", "unknown"}

\* A JSON value standing for one element of "homeworks". A key that is
\* absent has has* = FALSE and the empty string as its value.
Item(d, hn, n, hs, s) ==
    [isDict |-> d, hasName |-> hn, homework_name |-> n,
     hasStatus |-> hs, status |-> s]

\* The elements the API's answers are built from: every status for task1,
\* a second homework, elements that lack a key, and one that is no dict.
Items ==
    {Item(TRUE, TRUE, "task1", TRUE, s) : s \in Statuses}
    \cup {Item(TRUE, TRUE, "task2", TRUE, "approved"),
          Item(TRUE, FALSE, "", TRUE, "approved"),
          Item(TRUE, TRUE, "task1", FALSE, "")}
    \cup {Item(FALSE, FALSE, "", FALSE, "")}

HomeworkLists == UNION {[1..n -> Items] : n \in 0..MaxHomeworks}

\* value of the key "current_date": absent, a string, or an integer
Date(k, v) == [kind |-> k, value |-> v]

Dates == {Date("absent", 0), Date("str", 0), Date("int", 1700), Date("int", 1800)}

\* The decoded body of the API's answer.
Response(d, hh, l, hw, cd) ==
    [isDict |-> d, hasHomeworks |-> hh, homeworksIsList |-> l,
     homeworks |-> hw, current_date |-> cd]

Responses ==
    {Response(FALSE, FALSE, FALSE, <<>>, Date("absent", 0))}
    \cup {Response(TRUE, FALSE, FALSE, <<>>, cd) : cd \in Dates}
    \cup {Response(TRUE, TRUE, FALSE, <<>>, cd) : cd \in Dates}
    \cup {Response(TRUE, TRUE, TRUE, hw, cd) : hw \in HomeworkLists, cd \in Dates}

\* the value of `response` and `homework` when nothing is bound to them
NoResponse == Response(FALSE, FALSE, FALSE, <<>>, Date("unbound", 0))

\* What requests.get and response.json() do: raise, or answer with a status
\* code and a body. A body that is not JSON makes response.json() raise
\* requests' JSONDecodeError (a RequestException) or, in older releases, a
\* plain ValueError.
HttpOutcome(r, c, j, b) == [raises |-> r, status_code |-> c, json_raises |-> j, body |-> b]

StatusCodes == {200, 404, 500}

HttpOutcomes ==
    {HttpOutcome(r, 0, "None", NoResponse) : r \in {"RequestException", "ConnectionError"}}
    \cup {HttpOutcome("None", c, "None", NoResponse) : c \in StatusCodes \ {HTTP_OK}}
    \cup {HttpOutcome("None", HTTP_OK, j, NoResponse) : j \in {"RequestException", "ValueError"}}
    \cup {HttpOutcome("None", HTTP_OK, "None", b) : b \in Responses}

\* What bot.send_message does: deliver, or raise a TelegramError
SendOutcomes == {"ok", "TelegramError"}

(***************************************************************************)
(* check_tokens                                                            *)
(***************************************************************************)
check_tokens_any(e) == \E t \in TokenNames : e[t] # "None"

check_tokens(e) == \A t \in TokenNames : e[t] # "None"

(***************************************************************************)
(* get_api_answer                                                          *)
(***************************************************************************)
\* payload = {"from_date": timestamp}
Payload(ts) == [from_date |-> ts]

get_api_answer(ts, http) ==
    IF http.raises = "RequestException"
    THEN Raise(Exc("EndPointError", "Oshibka vypolneniya zaprosa"))
    ELSE IF http.raises = "ConnectionError"
    THEN Raise(Exc("ConnectionError", "Ne udalos ustanovit soedinenie"))
    ELSE IF http.status_code # HTTP_OK
    THEN Raise(Exc("EndpointStatusError", "Ne udalos poluchit otvet"))
    ELSE IF http.json_raises = "RequestException"
    THEN Raise(Exc("EndPointError", "Oshibka vypolneniya zaprosa"))
    ELSE IF http.json_raises # "None"
    THEN Raise(Exc(http.json_raises, "JSONDecodeError"))
    ELSE [raised |-> NoException, value |-> http.body]

(***************************************************************************)
(* check_response                                                          *)
(***************************************************************************)
\* response.get("homeworks") in place of the test for the key
check_response_no_key_check(r) ==
    IF ~r.isDict
    THEN Raise(Exc("TypeError", "Tip dannyh ne yavlyaetsya slovarem."))
    ELSE IF ~r.hasHomeworks \/ ~r.homeworksIsList
    THEN Raise(Exc("TypeError", "Tip dannyh ne yavlyaetsya spiskom slovarey."))
    ELSE IF ~(\A i \in 1..Len(r.homeworks) : r.homeworks[i].isDict)
    THEN Raise(Exc("TypeError", "Tip dannyh ne yavlyaetsya spiskom slovarey."))
    ELSE IF r.current_date.kind # "int"
    THEN Raise(Exc("TypeError", "Tip dannyh ne yavlyaetsya celym chislom."))
    ELSE [raised |-> NoException, value |-> r.homeworks]

\* response.get("current_date"), read only where its type is tested
check_response_date_last(r) ==
    IF ~r.isDict
    THEN Raise(Exc("TypeError", "Tip dannyh ne yavlyaetsya slovarem."))
    ELSE IF ~r.hasHomeworks
    THEN Raise(Exc("KeyError", "Otvet API ne soderzhit klyucha 'homeworks'"))
    ELSE IF ~r.homeworksIsList
    THEN Raise(Exc("TypeError", "Tip dannyh ne yavlyaetsya spiskom slovarey."))
    ELSE IF ~(\A i \in 1..Len(r.homeworks) : r.homeworks[i].isDict)
    THEN Raise(Exc("TypeError", "Tip dannyh ne yavlyaetsya spiskom slovarey."))
    ELSE IF r.current_date.kind # "int"
    THEN Raise(Exc("TypeError", "Tip dannyh ne yavlyaetsya celym chislom."))
    ELSE [raised |-> NoException, value |-> r.homeworks]

check_response(r) ==
    IF ~r.isDict
    THEN Raise(Exc("TypeError", "Tip dannyh ne yavlyaetsya slovarem."))
    ELSE IF ~r.hasHomeworks
    THEN Raise(Exc("KeyError", "Otvet API ne soderzhit klyucha 'homeworks'"))
    ELSE IF r.current_date.kind = "absent"
    THEN Raise(Exc("KeyError", "current_date"))
    ELSE IF ~r.homeworksIsList
    THEN Raise(Exc("TypeError", "Tip dannyh ne yavlyaetsya spiskom slovarey."))
    ELSE IF ~(\A i \in 1..Len(r.homeworks) : r.homeworks[i].isDict)
    THEN Raise(Exc("TypeError", "Tip dannyh ne yavlyaetsya spiskom slovarey."))
    ELSE IF r.current_date.kind # "int"
    THEN Raise(Exc("TypeError", "Tip dannyh ne yavlyaetsya celym chislom."))
    ELSE [raised |-> NoException, value |-> r.homeworks]

(***************************************************************************)
(* parse_status                                                            *)
(***************************************************************************)
\* f'Изменился статус проверки работы "{homework_name}". {verdict}'
StatusMessageNoQuotes(name, verdict) ==
    "Izmenilsya status proverki raboty " \o name \o ". " \o verdict

StatusMessage(name, verdict) ==
    "Izmenilsya status proverki raboty \"" \o name \o "\". " \o verdict

\* The KeyError for absent keys names them in its message; the message is
\* kept without them here.
parse_status_any(h) ==
    IF ~(h.hasName /\ h.hasStatus)
    THEN Raise(Exc("KeyError", "Otsutstvuyut klyuchi"))
    ELSE [raised |-> NoException,
          value |-> StatusMessage(h.homework_name,
                      IF h.status \in DOMAIN HOMEWORK_VERDICTS
                      THEN HOMEWORK_VERDICTS[h.status]
                      ELSE h.status)]

parse_status(h) ==
    IF ~(h.hasName /\ h.hasStatus)
    THEN Raise(Exc("KeyError", "Otsutstvuyut klyuchi"))
    ELSE IF h.status \notin DOMAIN HOMEWORK_VERDICTS
    THEN Raise(Exc("KeyError", "Neizvestnyy status - " \o h.status))
    ELSE [raised |-> NoException,
          value |-> StatusMessage(h.homework_name, HOMEWORK_VERDICTS[h.status])]

(***************************************************************************)
(* send_message                                                            *)
(***************************************************************************)
\* the TelegramError let through as it is
send_message_reraise(message, outcome) ==
    IF outcome = "ok"
    THEN [raised |-> NoException, value |-> "None"]
    ELSE Raise(Exc(outcome, ""))

send_message(message, outcome) ==
    IF outcome = "ok"
    THEN [raised |-> NoException, value |-> "None"]
    ELSE IF outcome = "TelegramError"
    THEN Raise(Exc("SendMessageError", "Ne udalos otpravit soobshchenie"))
    ELSE Raise(Exc(outcome, ""))

(***************************************************************************)
(* main: the state of the process                                          *)
(***************************************************************************)
VARIABLES
    env,              \* the three environment variables read at import
    pc,               \* where main() stands
    exit_code,        \* <<status>> once sys.exit(status) was called
    timestamp,        \* main's local `timestamp`
    last_status,      \* main's local `last_status`
    response,         \* main's local `response`
    homework,         \* main's local `homework`
    homework_status,  \* main's local `homework_status`
    raised,           \* the exception in flight inside the try statement
    cycle,            \* history of the current cycle (not program state)
    hist              \* history of the run (not program state)

vars == <<env, pc, exit_code, timestamp, last_status, response, homework,
          homework_status, raised, cycle, hist>>

\* exit_code holds the statuses sys.exit was called with: none yet
NotExited == <<>>

NoItem == Item(FALSE, FALSE, "", FALSE, "")

\* The history of a cycle that starts with last_status = ls.
NewCycle(ls) ==
    [last0     |-> ls,           \* last_status when the cycle began
     fetches   |-> 0,            \* requests made
     from_date |-> 0,            \* the from_date parameter of the request
     http      |-> [raises |-> "None", status_code |-> 0, json_raises |-> "None"],
                                 \* what requests.get and response.json() did
     sends     |-> 0,            \* calls of send_message
     validated |-> "none",       \* "empty" / "nonempty" once check_response returned
     first     |-> NoItem,       \* the element at index 0 of a non-empty list
     verdict   |-> "",           \* what parse_status returned
     attempted |-> "",           \* the text handed to send_message
     sent      |-> "none",       \* "ok" / "failed" once send_message ended
     failedAt  |-> "",           \* the call that raised
     error     |-> NoException,  \* what it raised
     later     |-> FALSE,        \* this is not the first cycle
     rest      |-> "none",       \* the elements after index 0: "none",
                                 \* "resolvable", or "rejected" when
                                 \* parse_status would raise for one of them
     retry     |-> FALSE]        \* the verdict resolved is one whose send
                                 \* failed and that was not delivered since

NewHist ==
    [lastVerdictSent |-> "",     \* text of the last verdict delivered
     noWorkSent      |-> FALSE,  \* the "no work" message has been delivered
     sleeps          |-> <<>>,   \* the sleeps since the last request
     fetched         |-> FALSE,  \* a request has been made
     prevFailed      |-> FALSE,  \* the previous cycle raised, and no request
                                 \* has been answered since
     pending         |-> ""]     \* the verdict whose send failed last, until
                                 \* it is delivered

Failed(step, e) == [cycle EXCEPT !.failedAt = step, !.error = e]

Init ==
    /\ env \in [TokenNames -> EnvValues]
    /\ pc = "start"
    /\ exit_code = NotExited
    /\ timestamp = 0
    /\ last_status = ""
    /\ response = NoResponse
    /\ homework = <<>>
    /\ homework_status = ""
    /\ raised = NoException
    /\ cycle = NewCycle("")
    /\ hist = NewHist

(***************************************************************************)
(* main, lines 238-247: the startup gate                                   *)
(***************************************************************************)
Startup ==
    /\ pc = "start"
    /\ \/ /\ check_tokens(env)
          /\ \E now \in StartTimes : timestamp' = now
          /\ last_status' = ""
          /\ pc' = "get_api_answer"
          /\ UNCHANGED exit_code
       \/ /\ ~check_tokens(env)
          /\ exit_code' = <<1>>
          /\ pc' = "exited"
          /\ UNCHANGED <<timestamp, last_status>>
    /\ UNCHANGED <<env, response, homework, homework_status, raised, cycle, hist>>

(***************************************************************************)
(* main, line 251: response = get_api_answer(timestamp)                    *)
(***************************************************************************)
GetApiAnswer ==
    /\ pc = "get_api_answer"
    /\ \E http \in HttpOutcomes :
         LET r == get_api_answer(timestamp, http)
             c == [cycle EXCEPT !.fetches = @ + 1,
                                !.from_date = Payload(timestamp).from_date,
                                !.http = [raises |-> http.raises,
                                          status_code |-> http.status_code,
                                          json_raises |-> http.json_raises]]
         IN  IF r.raised = NoException
             THEN /\ response' = r.value
                  /\ pc' = "check_response"
                  /\ cycle' = c
                  /\ hist' = [hist EXCEPT !.sleeps = <<>>, !.fetched = TRUE,
                                          !.prevFailed = FALSE]
                  /\ UNCHANGED raised
             ELSE /\ raised' = r.raised
                  /\ pc' = "except"
                  /\ cycle' = [c EXCEPT !.failedAt = "get_api_answer", !.error = r.raised]
                  /\ hist' = [hist EXCEPT !.sleeps = <<>>, !.fetched = TRUE]
                  /\ UNCHANGED response
    /\ UNCHANGED <<env, exit_code, timestamp, last_status, homework, homework_status>>

(***************************************************************************)
(* main, lines 252-253 and 258: homework = check_response(response) and    *)
(* the branch on the list                                                  *)
(***************************************************************************)
\* timestamp = response["current_date"] after a valid answer
CursorFromCurrentDate(ts, r) ==
    IF check_response(r).raised = NoException THEN r.current_date.value ELSE ts

\* main never assigns timestamp inside the loop
CursorAfterCheck(ts, r) == ts

\* what the elements after index 0 are to parse_status
RestOf(hw) ==
    IF Len(hw) <= 1 THEN "none"
    ELSE IF \E i \in 2..Len(hw) : parse_status(hw[i]).raised # NoException
    THEN "rejected"
    ELSE "resolvable"

CheckResponse ==
    /\ pc = "check_response"
    /\ LET r == check_response(response)
       IN  IF r.raised = NoException
           THEN /\ homework' = r.value
                /\ pc' = IF r.value # <<>> THEN "parse_status"
                         ELSE IF last_status = "" THEN "send_no_work"
                         ELSE "finally"
                /\ cycle' = [cycle EXCEPT
                               !.validated = IF r.value # <<>> THEN "nonempty" ELSE "empty",
                               !.first = IF r.value # <<>> THEN r.value[1] ELSE NoItem,
                               !.rest = RestOf(r.value)]
                /\ UNCHANGED raised
           ELSE /\ raised' = r.raised
                /\ pc' = "except"
                /\ cycle' = Failed("check_response", r.raised)
                /\ UNCHANGED homework
    /\ timestamp' = CursorAfterCheck(timestamp, response)
    /\ response' = NoResponse
    /\ UNCHANGED <<env, exit_code, last_status, homework_status, hist>>

(***************************************************************************)
(* main, lines 254-255: homework_status = parse_status(homework[0]) and    *)
(* the comparison with last_status                                         *)
(***************************************************************************)
LastItem(hw) == hw[Len(hw)]

FirstItem(hw) == hw[1]

AlwaysChanged(hs, ls) == TRUE

StatusChanged(hs, ls) == hs # ls

ParseStatus ==
    /\ pc = "parse_status"
    /\ LET r == parse_status(FirstItem(homework))
       IN  IF r.raised = NoException
           THEN /\ homework_status' = r.value
                /\ pc' = IF StatusChanged(r.value, last_status)
                         THEN "send_message" ELSE "finally"
                /\ cycle' = [cycle EXCEPT !.verdict = r.value,
                                          !.retry = (r.value = hist.pending)]
                /\ UNCHANGED raised
           ELSE /\ raised' = r.raised
                /\ pc' = "except"
                /\ cycle' = Failed("parse_status", r.raised)
                /\ UNCHANGED homework_status
    /\ homework' = <<>>
    /\ UNCHANGED <<env, exit_code, timestamp, last_status, response, hist>>

(***************************************************************************)
(* main, lines 256-257: send_message(bot, homework_status) and then        *)
(* last_status = homework_status                                           *)
(***************************************************************************)
StatusSetBeforeSend(r, hs, ls) == hs

\* last_status reset to the sentinel when the send fails
StatusClearedOnFailure(r, hs, ls) == IF r.raised = NoException THEN hs ELSE ""

StatusAfterSend(r, hs, ls) == IF r.raised = NoException THEN hs ELSE ls

SendVerdict ==
    /\ pc = "send_message"
    /\ \E o \in SendOutcomes :
         LET r == send_message(homework_status, o)
             c == [cycle EXCEPT !.sends = @ + 1, !.attempted = homework_status]
         IN  /\ last_status' = StatusAfterSend(r, homework_status, last_status)
             /\ IF r.raised = NoException
                THEN /\ pc' = "finally"
                     /\ cycle' = [c EXCEPT !.sent = "ok"]
                     /\ hist' = [hist EXCEPT
                                    !.lastVerdictSent = homework_status,
                                    !.pending = IF @ = homework_status THEN "" ELSE @]
                     /\ UNCHANGED raised
                ELSE /\ raised' = r.raised
                     /\ pc' = "except"
                     /\ cycle' = [c EXCEPT !.sent = "failed",
                                           !.failedAt = "send_message", !.error = r.raised]
                     /\ hist' = [hist EXCEPT !.pending = homework_status]
    /\ UNCHANGED <<env, exit_code, timestamp, response, homework, homework_status>>

(***************************************************************************)
(* main, lines 258-260: send_message(bot, "Работ на проверке нет.")        *)
(***************************************************************************)
SendNoWork ==
    /\ pc = "send_no_work"
    /\ \E o \in SendOutcomes :
         LET r == send_message(NO_WORK_MESSAGE, o)
             c == [cycle EXCEPT !.sends = @ + 1, !.attempted = NO_WORK_MESSAGE]
         IN  IF r.raised = NoException
             THEN /\ pc' = "finally"
                  /\ cycle' = [c EXCEPT !.sent = "ok"]
                  /\ hist' = [hist EXCEPT !.noWorkSent = TRUE]
                  /\ UNCHANGED raised
             ELSE /\ raised' = r.raised
                  /\ pc' = "except"
                  /\ cycle' = [c EXCEPT !.sent = "failed",
                                        !.failedAt = "send_message", !.error = r.raised]
                  /\ UNCHANGED hist
    /\ UNCHANGED <<env, exit_code, timestamp, last_status, response, homework,
                   homework_status>>

(***************************************************************************)
(* main, lines 262-264: except Exception as e: log it                      *)
(***************************************************************************)
\* the failed request made again at once from the except clause
ExceptRetry ==
    /\ pc = "except"
    /\ raised' = NoException
    /\ pc' = IF cycle.failedAt = "get_api_answer" THEN "get_api_answer" ELSE "finally"
    /\ UNCHANGED <<env, exit_code, timestamp, last_status, response, homework,
                   homework_status, cycle, hist>>

ExceptClause ==
    /\ pc = "except"
    /\ raised' = IF IsException(raised) THEN NoException ELSE raised
    /\ pc' = "finally"
    /\ UNCHANGED <<env, exit_code, timestamp, last_status, response, homework,
                   homework_status, cycle, hist>>

(***************************************************************************)
(* main, lines 266-267 and 249: finally: time.sleep(RETRY_PERIOD), then    *)
(* the next turn of `while True`, or the exception leaves main             *)
(***************************************************************************)
EndOfCycle(slept) ==
    /\ pc' = IF raised = NoException THEN "get_api_answer" ELSE "crashed"
    /\ hist' = [hist EXCEPT !.sleeps = @ \o slept, !.prevFailed = cycle.failedAt # ""]
    /\ cycle' = [NewCycle(last_status) EXCEPT !.later = TRUE]
    /\ homework_status' = ""
    /\ UNCHANGED <<env, exit_code, timestamp, last_status, response, homework, raised>>

\* the sleep written at the end of the try block instead of in `finally`
SleepInTry ==
    /\ pc = "finally"
    /\ EndOfCycle(IF cycle.failedAt = "" THEN <<RETRY_PERIOD>> ELSE <<>>)

Finally ==
    /\ pc = "finally"
    /\ EndOfCycle(<<RETRY_PERIOD>>)

Next ==
    \/ Startup
    \/ GetApiAnswer
    \/ CheckResponse
    \/ ParseStatus
    \/ SendVerdict
    \/ SendNoWork
    \/ ExceptClause
    \/ Finally

Spec == Init /\ [][Next]_vars

\* The single thread of main keeps running: every call returns and the
\* sleep ends.
LiveSpec == Spec /\ WF_vars(Next)

(***************************************************************************)
(* Properties                                                              *)
(***************************************************************************)
\* the loop has been entered and main has not returned
Running == pc \notin {"start", "exited"}

\* the cycle is past the calls that can send: it is at its except clause or
\* at its finally clause
CycleDecided == pc \in {"except", "finally"}

\* C1: a verdict text is never handed to send_message while it is the text
\* of the last verdict delivered; so no two consecutive deliveries of a
\* verdict carry the same text, and a cycle that resolves the text already
\* delivered sends nothing.
DedupeGate ==
    /\ pc = "send_message" => homework_status # hist.lastVerdictSent
    /\ (CycleDecided /\ cycle.verdict # "" /\ cycle.verdict = cycle.last0)
           => cycle.sends = 0

\* C1 witness: a verdict was delivered in an earlier cycle, and this cycle
\* resolved the same text and ended without a send.
DedupeGateWitness ==
    /\ pc = "finally"
    /\ cycle.verdict # ""
    /\ cycle.verdict = hist.lastVerdictSent
    /\ cycle.last0 = cycle.verdict
    /\ cycle.sends = 0

\* C2: main never ends because of an exception of a cycle: whatever
\* get_api_answer, check_response, parse_status or send_message raised is
\* gone when the finally clause is reached.
FaultContainment ==
    /\ pc # "crashed"
    /\ pc = "finally" => raised = NoException
    /\ Running => exit_code = NotExited

\* C2 witness: a cycle in which a call raised a built-in KeyError has reached
\* its finally clause with the exception caught.
FaultContainmentWitness ==
    /\ pc = "finally"
    /\ cycle.error.cls = "KeyError"
    /\ raised = NoException

\* a request has just been made: get_api_answer returned or raised
JustFetched ==
    /\ cycle.fetches = 1
    /\ \/ pc = "check_response"
       \/ pc = "except" /\ cycle.failedAt = "get_api_answer"

\* C3: once the loop is entered, from every state a further request is
\* eventually made, so requests are made infinitely often, also after a
\* cycle that failed.
PollingLive == Running ~> JustFetched

\* C3 witness: a request has been made in the cycle after a cycle that
\* raised.
PollingLiveWitness ==
    /\ JustFetched
    /\ pc = "except"
    /\ hist.prevFailed

\* C4: in a cycle whose send_message raised, last_status is what it was when
\* the cycle began; and last_status is always the text of the last verdict
\* delivered (empty before the first delivery).
FailedSendKeepsStatus ==
    /\ cycle.sent = "failed" => last_status = cycle.last0
    /\ last_status = hist.lastVerdictSent

\* C4 witness: the send of a verdict failed while another verdict had been
\* delivered before.
FailedSendKeepsStatusWitness ==
    /\ pc = "finally"
    /\ cycle.sent = "failed"
    /\ cycle.attempted = cycle.verdict
    /\ cycle.last0 # ""

\* C5 (as claimed): the "no work" message is sent at most once: once it has
\* been delivered, no cycle hands it to send_message again.
NoWorkSentAtMostOnce == ~(pc = "send_no_work" /\ hist.noWorkSent)

\* C6: with a credential that is None main exits with status 1 and makes no
\* request and no send; with all three set it does not exit and, once past
\* the gate, it is in the loop.
AllTokensSet == \A t \in TokenNames : env[t] # "None"

StartupGate ==
    /\ (~AllTokensSet)
          => /\ pc \in {"start", "exited"}
             /\ pc = "exited" => exit_code = <<1>>
             /\ ~hist.fetched /\ hist.sleeps = <<>>
             /\ cycle.fetches = 0 /\ cycle.sends = 0
    /\ AllTokensSet
          => /\ pc # "exited" /\ exit_code = NotExited
             /\ pc # "start" => pc \in {"get_api_answer", "check_response",
                                        "parse_status", "send_message",
                                        "send_no_work", "except", "finally"}

\* C6 witness: main has exited with 1 because exactly one credential is None.
StartupGateWitness ==
    /\ pc = "exited"
    /\ exit_code = <<1>>
    /\ Cardinality({t \in TokenNames : env[t] = "None"}) = 1

\* C7: when a request is about to be made after an earlier one, exactly one
\* sleep of RETRY_PERIOD = 600 seconds lies between them; inside a cycle
\* there is no sleep.
RetryCadence ==
    /\ (pc = "get_api_answer" /\ hist.fetched) => hist.sleeps = <<600>>
    /\ (pc = "get_api_answer" /\ ~hist.fetched) => hist.sleeps = <<>>
    /\ pc \in {"check_response", "parse_status", "send_message", "send_no_work",
               "except", "finally"} => hist.sleeps = <<>>

\* C7 witness: the request after a failed cycle is about to be made, one
\* sleep after the last one.
RetryCadenceWitness ==
    /\ pc = "get_api_answer"
    /\ hist.fetched
    /\ hist.prevFailed
    /\ hist.sleeps = <<RETRY_PERIOD>>

\* C8: in a cycle whose list is non-empty and whose element 0 resolves to V,
\* send_message is called, with exactly V, if and only if V differs from the
\* last_status the cycle began with; if it succeeds last_status is V.
VerdictSendRule ==
    (CycleDecided /\ cycle.validated = "nonempty"
       /\ parse_status(cycle.first).raised = NoException)
    => LET V == parse_status(cycle.first).value
       IN  /\ cycle.verdict = V
           /\ (cycle.sends = 1 /\ cycle.attempted = V) <=> (V # cycle.last0)
           /\ cycle.sends = 0 <=> (V = cycle.last0)
           /\ cycle.sent = "ok" => last_status = V

\* C8 witness: a verdict that differs from last_status was delivered.
VerdictSendRuleWitness ==
    /\ pc = "finally"
    /\ cycle.validated = "nonempty"
    /\ cycle.sent = "ok"
    /\ cycle.last0 # ""
    /\ cycle.attempted # cycle.last0

\* C9: when element 0 has both keys and a status outside the verdict table,
\* parse_status raises the unknown-status KeyError and returns nothing; the
\* cycle sends nothing and leaves last_status as it was.
HasUnknownStatus(h) ==
    h.hasName /\ h.hasStatus /\ h.status \notin {"approved", "reviewing", "rejected"}

UnknownStatusRejected ==
    (cycle.validated = "nonempty" /\ HasUnknownStatus(cycle.first)
       /\ pc # "parse_status")
    => /\ CycleDecided
       /\ cycle.failedAt = "parse_status"
       /\ cycle.error = [cls |-> "KeyError",
                         msg |-> "Neizvestnyy status - " \o cycle.first.status]
       /\ cycle.verdict = ""
       /\ homework_status = ""
       /\ cycle.sends = 0
       /\ last_status = cycle.last0

\* C9 witness: a cycle rejected an unknown status while a verdict had been
\* delivered before.
UnknownStatusRejectedWitness ==
    /\ pc = "finally"
    /\ cycle.validated = "nonempty"
    /\ HasUnknownStatus(cycle.first)
    /\ cycle.last0 # ""

\* C10: for element 0 with both keys and a status of the table, parse_status
\* returns 'Izmenilsya status proverki raboty "<name>". <phrase>' with the
\* phrase the table gives for the status; another status of the table with
\* the same name gives another text.
HasKnownStatus(h) ==
    h.hasName /\ h.hasStatus /\ h.status \in {"approved", "reviewing", "rejected"}

VerdictText ==
    (cycle.validated = "nonempty" /\ HasKnownStatus(cycle.first)
       /\ pc # "parse_status")
    => /\ cycle.failedAt # "parse_status"
       /\ cycle.verdict =
            "Izmenilsya status proverki raboty \"" \o cycle.first.homework_name
               \o "\". " \o HOMEWORK_VERDICTS[cycle.first.status]
       /\ (cycle.first.status = "approved") =>
            cycle.verdict = "Izmenilsya status proverki raboty \""
               \o cycle.first.homework_name
               \o "\". Rabota proverena: revyueru vsyo ponravilos. Ura!"
       /\ \A h \in Items :
            (HasKnownStatus(h) /\ h.homework_name = cycle.first.homework_name
               /\ h.status # cycle.first.status)
            => /\ parse_status(h).raised = NoException
               /\ parse_status(h).value # cycle.verdict

\* C10 witness: parse_status has resolved a "rejected" item of task1.
VerdictTextWitness ==
    /\ CycleDecided
    /\ cycle.validated = "nonempty"
    /\ cycle.first = Item(TRUE, TRUE, "task1", TRUE, "rejected")
    /\ cycle.verdict # ""

(***************************************************************************)
(* Properties of check_response, stated on the step of main that calls it  *)
(***************************************************************************)
\* the step of main that calls check_response: it ends in the except clause
\* with error class c, or (c = "None") goes on with the list hw
ValidationEnds(c, hw) ==
    IF c = "None"
    THEN /\ pc' # "except"
         /\ raised' = NoException
         /\ homework' = hw
    ELSE /\ pc' = "except"
         /\ raised'.cls = c
         /\ homework' = <<>>
         /\ cycle'.validated = "none"

\* C11: a response that is a dict without the key "homeworks" is rejected
\* with the KeyError for that key, whatever "current_date" is, and no list is
\* returned.
MissingHomeworksRejected ==
    [][(pc = "check_response" /\ response.isDict /\ ~response.hasHomeworks)
         => /\ ValidationEnds("KeyError", <<>>)
            /\ raised'.msg = "Otvet API ne soderzhit klyucha 'homeworks'"]_vars

\* C11 witness: check_response has raised the KeyError for "homeworks".
MissingHomeworksRejectedWitness ==
    /\ pc = "except"
    /\ cycle.failedAt = "check_response"
    /\ raised = [cls |-> "KeyError", msg |-> "Otvet API ne soderzhit klyucha 'homeworks'"]

HasNonDictElement(r) == \E i \in 1..Len(r.homeworks) : ~r.homeworks[i].isDict

\* C12 (as claimed): the error is that of the first failing check among
\* (1) dict, (2) "homeworks" present, (3) a list, (4) of dicts,
\* (5) "current_date" present and an int; an absent "current_date" gives a
\* TypeError; without a failure the list is returned unchanged.
ClaimedErrorClass(r) ==
    IF ~r.isDict THEN "TypeError"
    ELSE IF ~r.hasHomeworks THEN "KeyError"
    ELSE IF ~r.homeworksIsList THEN "TypeError"
    ELSE IF HasNonDictElement(r) THEN "TypeError"
    ELSE IF r.current_date.kind # "int" THEN "TypeError"
    ELSE "None"

\* C12 (as claimed): the step ends with the error class the claimed order
\* of checks gives.
ValidationOrderAsClaimed ==
    [][pc = "check_response"
         => ValidationEnds(ClaimedErrorClass(response), response.homeworks)]_vars

\* C12 (amended): the checks are (1) dict, else TypeError; (2) "homeworks"
\* present, else KeyError; (2a) "current_date" present, else KeyError;
\* (3) "homeworks" a list, else TypeError; (4) every element a dict, else
\* TypeError; (5) "current_date" an int, else TypeError. The error is that of
\* the first failing check, and without a failure the list is returned
\* unchanged.
FirstFailingCheck(r) ==
    IF ~r.isDict THEN "1"
    ELSE IF ~r.hasHomeworks THEN "2"
    ELSE IF r.current_date.kind = "absent" THEN "2a"
    ELSE IF ~r.homeworksIsList THEN "3"
    ELSE IF HasNonDictElement(r) THEN "4"
    ELSE IF r.current_date.kind # "int" THEN "5"
    ELSE "none"

ErrorClassOfCheck(k) ==
    CASE k \in {"1", "3", "4", "5"} -> "TypeError"
      [] k \in {"2", "2a"}          -> "KeyError"
      [] k = "none"                 -> "None"

\* C12 (amended): the step that calls check_response ends with the error of
\* the first failing check in the order 1, 2, 2a, 3, 4, 5, or with the list
\* unchanged.
ValidationOrder ==
    [][pc = "check_response"
         => LET k == FirstFailingCheck(response)
            IN  /\ ValidationEnds(ErrorClassOfCheck(k), response.homeworks)
                /\ k = "1"  => raised'.msg = "Tip dannyh ne yavlyaetsya slovarem."
                /\ k = "2"  => raised'.msg = "Otvet API ne soderzhit klyucha 'homeworks'"
                /\ k = "2a" => raised'.msg = "current_date"
                /\ k \in {"3", "4"} =>
                      raised'.msg = "Tip dannyh ne yavlyaetsya spiskom slovarey."
                /\ k = "5"  => raised'.msg = "Tip dannyh ne yavlyaetsya celym chislom."]_vars

\* C12 witness: check_response has raised the KeyError for an absent
\* "current_date".
ValidationOrderWitness ==
    /\ pc = "except"
    /\ cycle.failedAt = "check_response"
    /\ raised = [cls |-> "KeyError", msg |-> "current_date"]

\* C13: when bot.send_message fails, send_message raises SendMessageError and
\* nothing else.
SendFailureIsTyped ==
    cycle.sent = "failed"
    => /\ cycle.failedAt = "send_message"
       /\ cycle.error.cls = "SendMessageError"
       /\ pc = "except" => raised.cls = "SendMessageError"

\* C13 witness: the send of the "no work" message failed.
SendFailureIsTypedWitness ==
    /\ pc = "except"
    /\ cycle.sent = "failed"
    /\ cycle.attempted = "Rabot na proverke net."
    /\ raised.cls = "SendMessageError"

\* C14 (as claimed): a request that fails in transport ends in EndPointError,
\* a status code other than 200 ends in EndpointStatusError, and a body is
\* returned only with status code 200.
FetchErrorsAsClaimed ==
    cycle.fetches = 1
    => /\ cycle.http.raises # "None"
            => cycle.failedAt = "get_api_answer" /\ cycle.error.cls = "EndPointError"
       /\ (cycle.http.raises = "None" /\ cycle.http.status_code # 200)
            => cycle.failedAt = "get_api_answer"
               /\ cycle.error.cls = "EndpointStatusError"
       /\ cycle.failedAt # "get_api_answer"
            => cycle.http.raises = "None" /\ cycle.http.status_code = 200

(***************************************************************************)
(* Properties of the loop across cycles                                    *)
(***************************************************************************)
\* C15: timestamp never decreases; once the loop is entered it never changes,
\* whatever "current_date" the answers carry and whatever fails; and every
\* request carries it as from_date.
CursorFixed ==
    [][/\ timestamp' >= timestamp
       /\ Running => timestamp' = timestamp
       /\ cycle'.fetches = 1 => cycle'.from_date = timestamp']_vars

\* C15 witness: the cycle before ended without an exception, so it validated
\* an answer whose "current_date" is not the timestamp; the request of this
\* cycle has been made (and failed) with from_date still the start time.
CursorFixedWitness ==
    /\ pc = "except"
    /\ cycle.later
    /\ ~hist.prevFailed
    /\ cycle.failedAt = "get_api_answer"
    /\ cycle.from_date = 1000
    /\ timestamp = 1000

\* C16: while a verdict V whose send failed has not been delivered,
\* last_status is not V; a cycle that resolves V again hands V to
\* send_message again.
FailedSendRetried ==
    /\ hist.pending # "" => last_status # hist.pending
    /\ cycle.retry
         => \/ pc = "send_message" /\ homework_status = cycle.verdict
                                   /\ cycle.sends = 0
            \/ CycleDecided /\ cycle.sends = 1 /\ cycle.attempted = cycle.verdict

\* C16 witness: a verdict whose send had failed in an earlier cycle was
\* resolved again and its send failed again.
FailedSendRetriedWitness ==
    /\ pc = "finally"
    /\ cycle.retry
    /\ cycle.sent = "failed"
    /\ cycle.attempted = hist.pending

\* the texts parse_status can return
VerdictTexts ==
    {"Izmenilsya status proverki raboty \"" \o n \o "\". " \o HOMEWORK_VERDICTS[st] :
        n \in {"task1", "task2"}, st \in {"approved", "reviewing", "rejected"}}

\* C17: a cycle in which get_api_answer, check_response or parse_status
\* raised, or whose list is empty, hands no verdict to send_message and
\* leaves last_status as it was; last_status differs from its value at the
\* start of the cycle only after a send that succeeded, and is then the text
\* sent.
FailedCycleFrame ==
    /\ cycle.failedAt \in {"get_api_answer", "check_response", "parse_status"}
         => /\ CycleDecided
            /\ cycle.sends = 0 /\ cycle.attempted = ""
            /\ last_status = cycle.last0
    /\ cycle.validated = "empty"
         => /\ cycle.attempted \notin VerdictTexts
            /\ cycle.verdict = ""
            /\ last_status = cycle.last0
    /\ last_status # cycle.last0
         => cycle.sent = "ok" /\ last_status = cycle.attempted

\* C17 witness: the request was answered with a status code of 500 while a
\* verdict had been delivered before; nothing was sent.
FailedCycleFrameWitness ==
    /\ pc = "finally"
    /\ cycle.http.status_code = 500
    /\ cycle.failedAt = "get_api_answer"
    /\ cycle.last0 # ""
    /\ cycle.sends = 0

\* C18: a cycle makes at most one request and at most one call of
\* send_message; after a call raised nothing more is called in the cycle.
NoRetryInCycle ==
    /\ cycle.fetches <= 1
    /\ cycle.sends <= 1
    /\ cycle.failedAt # "" => CycleDecided
    /\ pc \in {"check_response", "parse_status", "send_message", "send_no_work"}
         => cycle.fetches = 1 /\ cycle.sends = 0

\* C18 witness: the next cycle begins after a cycle that raised, with no
\* request made yet in it.
NoRetryInCycleWitness ==
    /\ pc = "get_api_answer"
    /\ hist.prevFailed
    /\ cycle.fetches = 0
    /\ hist.sleeps = <<600>>

\* C19: once a verdict has been delivered, last_status is a verdict text,
\* never the sentinel nor the "no work" text, and the "no work" message is
\* not sent again.
NoWorkOnlyBeforeVerdict ==
    hist.lastVerdictSent # ""
    => /\ last_status \in VerdictTexts
       /\ last_status # ""
       /\ last_status # "Rabot na proverke net."
       /\ pc # "send_no_work"
       /\ cycle.attempted # "Rabot na proverke net."

\* C19 witness: empty, then non-empty, then empty: the "no work" message was
\* delivered, later a verdict, and now a cycle with an empty list has ended
\* without a send.
NoWorkOnlyBeforeVerdictWitness ==
    /\ pc = "finally"
    /\ hist.noWorkSent
    /\ hist.lastVerdictSent # ""
    /\ cycle.validated = "empty"
    /\ cycle.sends = 0

\* C20: after a valid answer, what the cycle sends and the last_status it
\* ends with are given by last_status at its start, the element at index 0
\* and whether the send succeeded; the other elements and "current_date"
\* have no part in it.
\* the sends and the last_status, from the start value l0, the element h
\* at index 0 (NoItem for an empty list) and the result of the send
CycleOutcome(l0, nonempty, h, sendResult) ==
    LET r == parse_status(h)
        text == IF ~nonempty
                THEN (IF l0 = "" THEN "Rabot na proverke net." ELSE "")
                ELSE IF r.raised # NoException THEN ""
                ELSE IF r.value # l0 THEN r.value ELSE ""
    IN  [attempted   |-> text,
         last_status |-> IF nonempty /\ text # "" /\ sendResult = "ok"
                         THEN text ELSE l0]

\* C20: the cycle's send and final last_status equal CycleOutcome of the
\* start value, the element at index 0 and the result of the send.
OutcomeFromFirstItem ==
    (CycleDecided /\ cycle.validated # "none")
    => LET o == CycleOutcome(cycle.last0, cycle.validated = "nonempty",
                             cycle.first, cycle.sent)
       IN  /\ cycle.attempted = o.attempted
           /\ cycle.sends = (IF o.attempted = "" THEN 0 ELSE 1)
           /\ last_status = o.last_status

\* C20 witness: the verdict of element 0 was delivered although a later
\* element of the list is one parse_status rejects.
OutcomeFromFirstItemWitness ==
    /\ pc = "finally"
    /\ cycle.rest = "rejected"
    /\ cycle.sent = "ok"
    /\ last_status = cycle.verdict
    /\ cycle.last0 # ""

====
